---- MODULE Spec2Model ----
(***************************************************************************)
(* Clinic Manager front end: session storage, route gate, menu, and the    *)
(* doctors / patients list pages with their search box, add form, edit     *)
(* form and delete prompt.                                                 *)
(*                                                                         *)
(* Strings that the code inspects character by character (search terms and *)
(* entity fields) are sequences of one-character strings.                  *)
(***************************************************************************)
EXTENDS Integers, Sequences, FiniteSets, TLC

(***************************************************************************)
(* Bounds                                                                  *)
(***************************************************************************)
MaxTermLen == 2

MaxListLen == 2

MaxInFlight == 2

(***************************************************************************)
(* JavaScript string primitives used by handleSearch                       *)
(***************************************************************************)
Alphabet == {"a", "A", " ", "1"}

Null == <<"null">>

Empty == << >>

LowerChar(c) == IF c = "A" THEN "a" ELSE IF c = "B" THEN "b" ELSE c

toLowerCase(s) == [i \in 1..Len(s) |-> LowerChar(s[i])]

IsSpace(c) == c = " "

RECURSIVE trimStart(_)
trimStart(s) == IF s # << >> /\ IsSpace(Head(s)) THEN trimStart(Tail(s)) ELSE s

RECURSIVE trimEnd(_)
trimEnd(s) ==
  IF s # << >> /\ IsSpace(s[Len(s)]) THEN trimEnd(SubSeq(s, 1, Len(s) - 1)) ELSE s

trim(s) == trimEnd(trimStart(s))

includes(s, t) ==
  \E i \in 0..(Len(s) - Len(t)) : SubSeq(s, i + 1, i + Len(t)) = t

(* optional chaining on a nullable field: x?.toLowerCase().includes(t) *)
optIncludes(field, t) ==
  IF field = Null THEN FALSE ELSE includes(toLowerCase(field), t)

(***************************************************************************)
(* handleSearch of the two list pages: the new value of the filtered list  *)
(***************************************************************************)
matchDoctor(doctor, lowerSearch) ==
  \/ optIncludes(doctor.name, lowerSearch)
  \/ optIncludes(doctor.username, lowerSearch)
  \/ optIncludes(doctor.specialty, lowerSearch)

matchPatient(patient, lowerSearch) ==
  \/ optIncludes(patient.name, lowerSearch)
  \/ optIncludes(patient.username, lowerSearch)
  \/ optIncludes(patient.birthdate, lowerSearch)

handleSearchDoctors_CaseSensitive(list, searchTerm) ==
  IF trim(searchTerm) = << >>
  THEN list
  ELSE SelectSeq(list, LAMBDA d : matchDoctor(d, searchTerm))

handleSearchDoctors(list, searchTerm) ==
  IF trim(searchTerm) = << >>
  THEN list
  ELSE LET lowerSearch == toLowerCase(searchTerm)
       IN  SelectSeq(list, LAMBDA d : matchDoctor(d, lowerSearch))

handleSearchPatients(list, searchTerm) ==
  IF trim(searchTerm) = << >>
  THEN list
  ELSE LET lowerSearch == toLowerCase(searchTerm)
       IN  SelectSeq(list, LAMBDA p : matchPatient(p, lowerSearch))

handleSearch(k, list, searchTerm) ==
  IF k = "doctors" THEN handleSearchDoctors(list, searchTerm)
                   ELSE handleSearchPatients(list, searchTerm)

(***************************************************************************)
(* State                                                                   *)
(***************************************************************************)
VARIABLES
  token,            \* localStorage "access_token" (NoToken when absent)
  location,         \* router location
  view,             \* page component the Routes element has on screen
  menuLoggedIn,     \* Menu: loggedIn
  menuRole,         \* Menu: role
  loginPending,     \* Login: a POST /api/token is outstanding
  kind,             \* which list page the controller state belongs to
  doctors,          \* page: doctors / patients (authoritative list)
  filteredDoctors,  \* page: filteredDoctors / filteredPatients (derived list)
  loading,          \* page: loading
  error,            \* page: error
  showForm,         \* page: showForm
  editing,          \* page: editingDoctor / editingPatient
  searchTerm,       \* search box: searchTerm
  list,             \* list component: error, loading, showModal, toDelete
  addForm,          \* add form: username, name, extra, error, loading
  editForm,         \* edit form: name, extra, error, loading
  net,              \* requests in flight, in the order they were issued
  db,               \* backend store of the mounted page's entity type
  sent,             \* requests issued by the last session or navigation step
  lastOp            \* the session or navigation step that ran last

navVars == <<token, location, view, menuLoggedIn, menuRole, loginPending, sent, lastOp>>

pageVars == <<kind, doctors, filteredDoctors, loading, error, showForm, editing>>

childVars == <<searchTerm, list, addForm, editForm>>

vars == <<navVars, pageVars, childVars, net, db>>

NoToken == << >>

NoError == "none"

NoEntity == [none |-> TRUE]

Op(name, arg) == [op |-> name, arg |-> arg]

(***************************************************************************)
(* Entities (src/client/utils/types.ts)                                    *)
(***************************************************************************)
Doctor(u, n, s) == [username |-> u, name |-> n, specialty |-> s]

Patient(u, n, b) == [username |-> u, name |-> n, birthdate |-> b]

DoctorPool ==
  { Doctor(<<"a", "1">>, <<"A", " ", "a">>, Null),
    Doctor(<<"a", "a">>, <<"A">>, <<"a", " ">>),
    Doctor(<<"1">>, <<"1", "A">>, <<"A", "a">>),
    Doctor(<<"1", "1">>, <<"a", "A">>, Null) }

PatientPool ==
  { Patient(<<"a", "1">>, <<"A", " ", "a">>, <<"1", "1">>),
    Patient(<<"a", "a">>, <<"A">>, <<"1">>),
    Patient(<<"1">>, <<"1", "A">>, <<"1", " ", "1">>) }

Pool(k) == IF k = "doctors" THEN DoctorPool ELSE PatientPool

Extra(k, e) == IF k = "doctors" THEN e.specialty ELSE e.birthdate

RemoveAt(q, i) == SubSeq(q, 1, i - 1) \o SubSeq(q, i + 1, Len(q))

(* lists without repeated entries, at most n long *)
ListsOver(S, n) ==
  UNION { { q \in [1..m -> S] : \A i, j \in 1..m : i # j => q[i] # q[j] } : m \in 0..n }

StringsUpTo(n) == UNION { [1..m -> Alphabet] : m \in 0..n }

(***************************************************************************)
(* Defaults of the parts a specification leaves alone                      *)
(***************************************************************************)
ListIdle ==
  [error |-> NoError, loading |-> Null, showModal |-> FALSE, toDelete |-> NoEntity]

AddFormIdle ==
  [username |-> Empty, name |-> Empty, extra |-> Empty, error |-> NoError, loading |-> FALSE]

EditFormIdle == [name |-> Empty, extra |-> Empty, error |-> NoError, loading |-> FALSE]

(***************************************************************************)
(* Session storage and role decoding                                       *)
(*                                                                         *)
(* A stored token is the sequence of its dot-separated segments, each a    *)
(* sequence of characters; a text is a sequence of characters, a character *)
(* outside printable ASCII being written "#" and its code.                 *)
(***************************************************************************)
Printable ==
  << " ", "!", "\"", "#", "$", "%", "&", "'", "(", ")", "*", "+", ",",
     "-", ".", "/", "0", "1", "2", "3", "4", "5", "6", "7", "8", "9",
     ":", ";", "<", "=", ">", "?", "@", "A", "B", "C", "D", "E", "F",
     "G", "H", "I", "J", "K", "L", "M", "N", "O", "P", "Q", "R", "S",
     "T", "U", "V", "W", "X", "Y", "Z", "[", "#92", "]", "^", "_", "#96",
     "a", "b", "c", "d", "e", "f", "g", "h", "i", "j", "k", "l", "m",
     "n", "o", "p", "q", "r", "s", "t", "u", "v", "w", "x", "y", "z",
     "{", "|", "}", "~" >>

Base64Alphabet ==
  << "A", "B", "C", "D", "E", "F", "G", "H", "I", "J", "K", "L", "M",
     "N", "O", "P", "Q", "R", "S", "T", "U", "V", "W", "X", "Y", "Z",
     "a", "b", "c", "d", "e", "f", "g", "h", "i", "j", "k", "l", "m",
     "n", "o", "p", "q", "r", "s", "t", "u", "v", "w", "x", "y", "z",
     "0", "1", "2", "3", "4", "5", "6", "7", "8", "9", "+", "/" >>

Base64UrlAlphabet ==
  << "A", "B", "C", "D", "E", "F", "G", "H", "I", "J", "K", "L", "M",
     "N", "O", "P", "Q", "R", "S", "T", "U", "V", "W", "X", "Y", "Z",
     "a", "b", "c", "d", "e", "f", "g", "h", "i", "j", "k", "l", "m",
     "n", "o", "p", "q", "r", "s", "t", "u", "v", "w", "x", "y", "z",
     "0", "1", "2", "3", "4", "5", "6", "7", "8", "9", "-", "_" >>

(* character code of a character and back *)
Ord(c) ==
  IF \E i \in 1..Len(Printable) : Printable[i] = c
  THEN 31 + (CHOOSE i \in 1..Len(Printable) : Printable[i] = c)
  ELSE CHOOSE n \in 0..255 : c = "#" \o ToString(n)

Chr(n) == IF n \in 32..126 THEN Printable[n - 31] ELSE "#" \o ToString(n)

IndexIn(alphabet, c) == (CHOOSE i \in 1..Len(alphabet) : alphabet[i] = c) - 1

(* forgiving base64 decoding over an alphabet: whitespace is dropped, one  *)
(* or two "=" are dropped from a length that is a multiple of 4, a length  *)
(* of 1 modulo 4 or a character outside the alphabet is an error, and the  *)
(* bits left over after the last whole byte are discarded                  *)
Base64Decode(seg, alphabet) ==
  LET s1 == SelectSeq(seg, LAMBDA c : c # " ")
      n1 == Len(s1)
      pad == IF n1 % 4 = 0 /\ n1 >= 2 /\ s1[n1] = "=" /\ s1[n1 - 1] = "=" THEN 2
             ELSE IF n1 % 4 = 0 /\ n1 >= 1 /\ s1[n1] = "=" THEN 1
             ELSE 0
      s == SubSeq(s1, 1, n1 - pad)
      n == Len(s)
      valid == /\ n % 4 # 1
               /\ \A i \in 1..n : \E j \in 1..Len(alphabet) : alphabet[j] = s[i]
      v == [i \in 1..n |-> IndexIn(alphabet, s[i])]
      byte(k) == LET b == 4 * (k \div 3)
                 IN  CASE k % 3 = 0 -> v[b + 1] * 4 + (v[b + 2] \div 16)
                       [] k % 3 = 1 -> (v[b + 2] % 16) * 16 + (v[b + 3] \div 4)
                       [] OTHER     -> (v[b + 3] % 4) * 64 + v[b + 4]
  IN  IF valid
      THEN [threw |-> FALSE, text |-> [k \in 1..((n * 6) \div 8) |-> Chr(byte(k - 1))]]
      ELSE [threw |-> TRUE, text |-> << >>]

(* window.atob: the standard alphabet *)
atob(seg) == Base64Decode(seg, Base64Alphabet)

(* base64url without padding, as a JWT carries its segments *)
Base64UrlEncode(text) ==
  LET n == Len(text)
      B(i) == IF i <= n THEN Ord(text[i]) ELSE 0
      char(j) == LET b == 3 * (j \div 4)
                 IN  CASE j % 4 = 0 -> B(b + 1) \div 4
                       [] j % 4 = 1 -> (B(b + 1) % 4) * 16 + (B(b + 2) \div 16)
                       [] j % 4 = 2 -> (B(b + 2) % 16) * 4 + (B(b + 3) \div 64)
                       [] OTHER     -> B(b + 3) % 64
  IN  [j \in 1..((n * 8 + 5) \div 6) |-> Base64UrlAlphabet[char(j - 1) + 1]]

Undefined == <<"undefined">>

(* JSON.parse on the texts used here: null, a string without escapes, or   *)
(* an object whose members are strings or null, without whitespace; any    *)
(* other text is a SyntaxError                                             *)
JsonFailed == [threw |-> TRUE, kind |-> "none", members |-> << >>, next |-> 0]

IsNullAt(t, i) ==
  i + 3 <= Len(t) /\ SubSeq(t, i, i + 3) = <<"n", "u", "l", "l">>

(* the position of the quote that closes the string opened at i, 0 if none *)
RECURSIVE ClosingQuote(_, _)
ClosingQuote(t, j) ==
  IF j > Len(t) \/ t[j] = "#92" THEN 0
  ELSE IF t[j] = "\"" THEN j
  ELSE ClosingQuote(t, j + 1)

(* a string or null starting at i: its value and the position after it *)
JsonScalar(t, i) ==
  IF i <= Len(t) /\ t[i] = "\"" /\ ClosingQuote(t, i + 1) # 0
  THEN [threw |-> FALSE, kind |-> "string",
        members |-> SubSeq(t, i + 1, ClosingQuote(t, i + 1) - 1),
        next |-> ClosingQuote(t, i + 1) + 1]
  ELSE IF IsNullAt(t, i)
  THEN [threw |-> FALSE, kind |-> "null", members |-> Null, next |-> i + 4]
  ELSE JsonFailed

(* the members of an object from position i on, after those in acc *)
RECURSIVE JsonMembers(_, _, _)
JsonMembers(t, i, acc) ==
  LET key == JsonScalar(t, i)
      val == IF ~key.threw /\ key.kind = "string"
                /\ key.next <= Len(t) /\ t[key.next] = ":"
             THEN JsonScalar(t, key.next + 1)
             ELSE JsonFailed
      all == Append(acc, <<key.members, val.members>>)
  IN  IF val.threw \/ val.next > Len(t) THEN JsonFailed
      ELSE IF t[val.next] = "}"
      THEN [threw |-> FALSE, kind |-> "object", members |-> all, next |-> val.next + 1]
      ELSE IF t[val.next] = "," THEN JsonMembers(t, val.next + 1, all)
      ELSE JsonFailed

JSONparse(t) ==
  LET parsed == IF Len(t) >= 2 /\ t[1] = "{" /\ t[2] = "}"
                THEN [threw |-> FALSE, kind |-> "object", members |-> << >>, next |-> 3]
                ELSE IF Len(t) >= 1 /\ t[1] = "{" THEN JsonMembers(t, 2, << >>)
                ELSE JsonScalar(t, 1)
  IN  IF ~parsed.threw /\ parsed.next = Len(t) + 1 THEN parsed ELSE JsonFailed

(* property access value.name on a parsed value: a TypeError on null, the  *)
(* member named last in an object, undefined otherwise                     *)
Member(parsed, name) ==
  IF parsed.kind = "null" THEN [threw |-> TRUE, value |-> Undefined]
  ELSE IF parsed.kind = "object"
          /\ \E i \in 1..Len(parsed.members) : parsed.members[i][1] = name
  THEN LET i == CHOOSE i \in 1..Len(parsed.members) :
                  /\ parsed.members[i][1] = name
                  /\ \A j \in (i + 1)..Len(parsed.members) : parsed.members[j][1] # name
       IN  [threw |-> FALSE, value |-> parsed.members[i][2]]
  ELSE [threw |-> FALSE, value |-> Undefined]

NoRole == <<"null">>

RoleAdmin == << "a", "d", "m", "i", "n" >>

RoleDoctor == << "d", "o", "c", "t", "o", "r" >>

RolePatient == << "p", "a", "t", "i", "e", "n", "t" >>

RoleOther == << "n", "u", "r", "s", "e" >>

RoleKey == << "r", "o", "l", "e" >>

(* Menu.getUserRole: null without a token and when anything in the try    *)
(* block throws, else the role member of the parsed payload                *)
getUserRole(tok) ==
  IF tok = NoToken THEN NoRole
  ELSE LET seg == IF Len(tok) >= 2 THEN tok[2]
                  ELSE <<"u", "n", "d", "e", "f", "i", "n", "e", "d">>
           decoded == atob(seg)
           parsed == IF decoded.threw THEN JsonFailed ELSE JSONparse(decoded.text)
           role == IF parsed.threw THEN [threw |-> TRUE, value |-> Undefined]
                   ELSE Member(parsed, RoleKey)
       IN  IF role.threw THEN NoRole ELSE role.value

(* the payload {"role":"<r>"} and the JWT the backend issues for it *)
Payload(r) ==
  << "{", "\"", "r", "o", "l", "e", "\"", ":", "\"" >> \o r \o << "\"", "}" >>

SegAdmin == Base64UrlEncode(Payload(RoleAdmin))

SegDoctor == Base64UrlEncode(Payload(RoleDoctor))

SegPatient == Base64UrlEncode(Payload(RolePatient))

SegOther == Base64UrlEncode(Payload(RoleOther))

Jwt(seg) == << <<"h">>, seg, <<"s">> >>

IssuedTokens == { Jwt(SegAdmin), Jwt(SegDoctor), Jwt(SegPatient), Jwt(SegOther) }

NavIdle ==
  /\ token = Jwt(SegAdmin)
  /\ location = "/doctors"
  /\ view = "Doctors"
  /\ menuLoggedIn = TRUE
  /\ menuRole = RoleAdmin
  /\ loginPending = FALSE
  /\ lastOp = Op("load", "/doctors")

(***************************************************************************)
(* The search box and handleSearch on a loaded list                        *)
(***************************************************************************)
InitFilter ==
  /\ NavIdle
  /\ kind \in {"doctors", "patients"}
  /\ doctors \in ListsOver(Pool(kind), MaxListLen)
  /\ filteredDoctors = doctors
  /\ loading = FALSE
  /\ error = NoError
  /\ showForm = FALSE
  /\ editing = NoEntity
  /\ searchTerm = Empty
  /\ list = ListIdle
  /\ addForm = AddFormIdle
  /\ editForm = EditFormIdle
  /\ net = << >>
  /\ db = << >>
  /\ sent = {}

(* the search box is part of the page's normal tree only *)
SearchShown == ~loading /\ error = NoError

handleSearchChange(value) ==
  /\ SearchShown
  /\ searchTerm' = value
  /\ filteredDoctors' = handleSearch(kind, doctors, value)
  /\ UNCHANGED <<navVars, kind, doctors, loading, error, showForm, editing>>
  /\ UNCHANGED <<list, addForm, editForm, net, db>>

handleClear ==
  /\ SearchShown
  /\ searchTerm # Empty
  /\ searchTerm' = Empty
  /\ filteredDoctors' = handleSearch(kind, doctors, Empty)
  /\ UNCHANGED <<navVars, kind, doctors, loading, error, showForm, editing>>
  /\ UNCHANGED <<list, addForm, editForm, net, db>>

NextFilter ==
  \/ \E value \in StringsUpTo(MaxTermLen) : handleSearchChange(value)
  \/ handleClear

SpecFilter == InitFilter /\ [][NextFilter]_vars

(***************************************************************************)
(* C6 as stated: setFilter(s) leaves exactly the entities one of whose     *)
(* name, username, specialty / birthdate contains s, compared without      *)
(* regard to case, in the order of the authoritative list; setFilter("")   *)
(* leaves the whole list.                                                  *)
(***************************************************************************)
SameLetter(c, d) ==
  \/ c = d
  \/ {c, d} = {"a", "A"}

ContainsCI(field, s) ==
  /\ field # Null
  /\ \E i \in 0..(Len(field) - Len(s)) :
       \A j \in 1..Len(s) : SameLetter(field[i + j], s[j])

Selected(k, e, s) ==
  \/ ContainsCI(e.name, s)
  \/ ContainsCI(e.username, s)
  \/ ContainsCI(Extra(k, e), s)

IsBlank(s) == \A i \in 1..Len(s) : s[i] = " "

C6_FilterSelectsContaining ==
  filteredDoctors = SelectSeq(doctors, LAMBDA e : Selected(kind, e, searchTerm))

(***************************************************************************)
(* C6 amended: the same for every filter string that is not blank; a blank *)
(* filter string (empty or only spaces) leaves the whole list.             *)
(***************************************************************************)
C6_FilterSelectsContainingUnlessBlank ==
  filteredDoctors =
    IF IsBlank(searchTerm)
    THEN doctors
    ELSE SelectSeq(doctors, LAMBDA e : Selected(kind, e, searchTerm))

C6_Witness ==
  /\ ~IsBlank(searchTerm)
  /\ \E i \in 1..Len(searchTerm) : searchTerm[i] = "A"
  /\ Len(filteredDoctors) = 1
  /\ Len(doctors) = 2

(***************************************************************************)
(* Requests                                                                *)
(***************************************************************************)
Bearer(tok) == <<"Bearer", IF tok = NoToken THEN <<"null">> ELSE tok>>

NoHeader == <<"no Authorization header">>

NoBody == [none |-> TRUE]

(* a request: "target" is the username a path ends with, "from" the component *)
(* instance whose handler awaits the answer, "live" whether that instance is  *)
(* still mounted                                                              *)
(* the answer a list request will bring: nothing yet, or the rows the     *)
(* backend read when it served the request                                *)
Unserved == [served |-> FALSE, rows |-> << >>]

Served(rows) == [served |-> TRUE, rows |-> rows]

Request(method, path, target, auth, body, from) ==
  [method |-> method, path |-> path, target |-> target, auth |-> auth,
   body |-> body, from |-> from, live |-> TRUE, after |-> Null,
   data |-> Unserved]

Req(method, path, auth) == Request(method, path, Null, auth, NoBody, "page")

(***************************************************************************)
(* Routes (App) and the route gate (ProtectedRoute)                        *)
(***************************************************************************)
PublicPaths == {"/", "/login", "/about"}

ProtectedPaths == {"/user", "/doctors", "/patients"}

Paths == PublicPaths \cup ProtectedPaths

RouteElement(path) ==
  CASE path = "/"         -> "Home"
    [] path = "/login"    -> "Login"
    [] path = "/about"    -> "AboutUs"
    [] path = "/user"     -> "UserInfo"
    [] path = "/doctors"  -> "Doctors"
    [] path = "/patients" -> "Patients"

ProtectedRoute_AlwaysOutlet(tok, path) == path

(* where a request for a path under the ProtectedRoute element ends up *)
ProtectedRoute(tok, path) == IF tok # NoToken THEN path ELSE "/login"

Resolve(tok, path) ==
  IF path \in ProtectedPaths THEN ProtectedRoute(tok, path) ELSE path

(* requests a page issues when it mounts *)
MountRequests(page, tok) ==
  CASE page = "Home" ->
         { Req("GET", "/api/patients", NoHeader),
           Req("GET", "/api/doctors", NoHeader),
           Req("GET", "/api/appointments", NoHeader) }
    [] page = "UserInfo" ->
         IF tok # NoToken THEN { Req("GET", "/api/users/me", Bearer(tok)) } ELSE {}
    [] page = "Doctors"  -> { Req("GET", "/api/doctors", Bearer(tok)) }
    [] page = "Patients" -> { Req("GET", "/api/patients", Bearer(tok)) }
    [] OTHER -> {}

(* pages the menu offers per role: Doctors to admin, Patients to admin and doctor *)
MenuShows(page, loggedIn, role) ==
  CASE page = "Doctors"  -> role = RoleAdmin
    [] page = "Patients" -> role \in {RoleAdmin, RoleDoctor}
    [] page = "UserInfo" -> loggedIn
    [] OTHER -> TRUE

CtlIdle ==
  /\ kind = "doctors"
  /\ doctors = << >>
  /\ filteredDoctors = << >>
  /\ loading = TRUE
  /\ error = NoError
  /\ showForm = FALSE
  /\ editing = NoEntity
  /\ searchTerm = Empty
  /\ list = ListIdle
  /\ addForm = AddFormIdle
  /\ editForm = EditFormIdle
  /\ db = << >>

ctlVars == <<pageVars, childVars, db>>

(* the application loads at a URL with whatever the storage holds *)
LoadApp(tok, path) ==
  /\ token = tok
  /\ location = Resolve(tok, path)
  /\ view = RouteElement(location)
  /\ menuLoggedIn = (tok # NoToken)
  /\ menuRole = getUserRole(tok)
  /\ loginPending = FALSE
  /\ net = << >>
  /\ sent = MountRequests(view, tok)
  /\ lastOp = Op("load", path)

InitNav ==
  /\ CtlIdle
  /\ \E tok \in IssuedTokens \cup {NoToken}, path \in Paths : LoadApp(tok, path)

(* a link, the Login button of the menu, or a URL typed in the address bar *)
Navigate(path) ==
  /\ location' = Resolve(token, path)
  /\ view' = RouteElement(location')
  /\ loginPending' = IF view' = "Login" /\ view = "Login" THEN loginPending ELSE FALSE
  /\ sent' = IF view' = view THEN {} ELSE MountRequests(view', token)
  /\ lastOp' = Op("navigate", path)
  /\ UNCHANGED <<token, menuLoggedIn, menuRole, net, ctlVars>>

(* Login.handleSubmit up to its await *)
LoginSubmit ==
  /\ view = "Login"
  /\ ~loginPending
  /\ Len(net) < MaxInFlight
  /\ loginPending' = TRUE
  /\ net' = Append(net, Req("POST", "/api/token", NoHeader))
  /\ sent' = { Req("POST", "/api/token", NoHeader) }
  /\ lastOp' = Op("loginSubmit", "")
  /\ UNCHANGED <<token, location, view, menuLoggedIn, menuRole, ctlVars>>

(* Login.handleSubmit after a 2xx answer carrying access_token *)
LoginOk(i, tok) ==
  /\ i \in 1..Len(net)
  /\ net' = RemoveAt(net, i)
  /\ token' = tok
  /\ location' = "/"
  /\ view' = RouteElement("/")
  /\ loginPending' = FALSE
  /\ sent' = IF view = "Home" THEN {} ELSE MountRequests("Home", tok)
  /\ lastOp' = Op("loginOk", "")
  /\ UNCHANGED <<menuLoggedIn, menuRole, ctlVars>>

LoginFailed_ClearsToken(i) ==
  /\ i \in 1..Len(net)
  /\ net' = RemoveAt(net, i)
  /\ token' = NoToken
  /\ loginPending' = FALSE
  /\ sent' = {}
  /\ lastOp' = Op("loginFailed", "")
  /\ UNCHANGED <<location, view, menuLoggedIn, menuRole, ctlVars>>

(* Login.handleSubmit after a failed answer *)
LoginFailed(i) ==
  /\ i \in 1..Len(net)
  /\ net' = RemoveAt(net, i)
  /\ loginPending' = FALSE
  /\ sent' = {}
  /\ lastOp' = Op("loginFailed", "")
  /\ UNCHANGED <<token, location, view, menuLoggedIn, menuRole, ctlVars>>

handleLogout_KeepsToken ==
  /\ menuLoggedIn
  /\ token' = token
  /\ menuLoggedIn' = FALSE
  /\ menuRole' = NoRole
  /\ location' = "/login"
  /\ view' = "Login"
  /\ loginPending' = IF view = "Login" THEN loginPending ELSE FALSE
  /\ sent' = {}
  /\ lastOp' = Op("logout", "")
  /\ UNCHANGED <<net, ctlVars>>

(* Menu.handleLogout; the button is rendered only while loggedIn *)
handleLogout ==
  /\ menuLoggedIn
  /\ token' = NoToken
  /\ menuLoggedIn' = FALSE
  /\ menuRole' = NoRole
  /\ location' = "/login"
  /\ view' = "Login"
  /\ loginPending' = IF view = "Login" THEN loginPending ELSE FALSE
  /\ sent' = {}
  /\ lastOp' = Op("logout", "")
  /\ UNCHANGED <<net, ctlVars>>

(* another tab of the same origin writes or removes the token; this tab's   *)
(* Menu runs handleStorageChange, and its [loggedIn] effect when the flag   *)
(* changed                                                                  *)
StorageEvent(tok) ==
  /\ tok # token
  /\ token' = tok
  /\ menuLoggedIn' = (tok # NoToken)
  /\ menuRole' = IF menuLoggedIn' # menuLoggedIn THEN getUserRole(tok) ELSE menuRole
  /\ sent' = {}
  /\ lastOp' = Op("storage", "")
  /\ UNCHANGED <<location, view, loginPending, net, ctlVars>>

(* the browser reloads the page at the current location *)
Reload ==
  /\ token' = token
  /\ location' = Resolve(token, location)
  /\ view' = RouteElement(location')
  /\ menuLoggedIn' = (token # NoToken)
  /\ menuRole' = getUserRole(token)
  /\ loginPending' = FALSE
  /\ net' = << >>
  /\ sent' = MountRequests(view', token)
  /\ lastOp' = Op("load", location)
  /\ UNCHANGED ctlVars

NextNav ==
  \/ \E path \in Paths : Navigate(path)
  \/ LoginSubmit
  \/ \E i \in 1..MaxInFlight, tok \in IssuedTokens : LoginOk(i, tok)
  \/ \E i \in 1..MaxInFlight : LoginFailed(i)
  \/ handleLogout
  \/ \E tok \in IssuedTokens \cup {NoToken} : StorageEvent(tok)
  \/ Reload

SpecNav == InitNav /\ [][NextNav]_vars

(***************************************************************************)
(* Role decoding over what the storage can hold: any string may sit under  *)
(* "access_token" when the application loads or another tab writes it      *)
(***************************************************************************)
PayloadTexts ==
  { Payload(RoleAdmin),
    Payload(RoleDoctor),
    << "{", "\"", "s", "u", "b", "\"", ":", "\"", "a", "b", "c", "?", "\"", ",", "\"", "r", "o", "l", "e", "\"", ":", "\"", "a", "d", "m", "i", "n", "\"", "}" >>,
    << "{", "\"", "s", "u", "b", "\"", ":", "\"", "a", "\"", "}" >>,
    << "{", "}" >>,
    << "n", "u", "l", "l" >>,
    << "{", "\"", "r", "o", "l", "e", "\"", ":", "n", "u", "l", "l", "}" >>,
    << "a", "b", "c" >> }

(* middle segments: payloads as a JWT carries them, and two strings that   *)
(* are not base64                                                          *)
MiddleSegments ==
  { Base64UrlEncode(p) : p \in PayloadTexts } \cup { <<"!", "!">>, <<"e">> }

StoredValues ==
  {NoToken}
    \cup { <<m>> : m \in MiddleSegments }
    \cup { << <<"h">>, m >> : m \in MiddleSegments }
    \cup { Jwt(m) : m \in MiddleSegments }

InitRole ==
  /\ CtlIdle
  /\ \E tok \in StoredValues : LoadApp(tok, "/")

NextRole ==
  \/ \E tok \in StoredValues : StorageEvent(tok)
  \/ Reload

SpecRole == InitRole /\ [][NextRole]_vars

(***************************************************************************)
(* A list page (Doctors or Patients) from its mount on                     *)
(*                                                                         *)
(* While loading or error is set the page returns the spinner or the error *)
(* panel instead of its normal tree, so the search box, the list, and the  *)
(* forms are unmounted; a component mounted again starts from its useState *)
(* initial values, and a state update of an unmounted instance is dropped. *)
(***************************************************************************)
CU1 == <<"a">>

CU2 == <<"1">>

TypedName == <<"1">>

TypedExtra == <<"1", "1">>

InitialDb(k) ==
  IF k = "doctors"
  THEN << Doctor(CU1, <<"A">>, <<"A">>), Doctor(CU2, TypedName, Null) >>
  ELSE << Patient(CU1, <<"A">>, <<"1", " ">>), Patient(CU2, TypedName, TypedExtra) >>

CtlTerms == { <<"a">> }

ListPath(k) == IF k = "doctors" THEN "/api/doctors" ELSE "/api/patients"

Shown == ~loading /\ error = NoError

ListMounted == Shown /\ ~(Len(filteredDoctors) = 0 /\ Len(doctors) > 0)

AddMounted == Shown /\ showForm

EditMounted == Shown /\ editing # NoEntity

ModalOpen == ListMounted /\ list.showModal

(* useState initial values of the edit form for the entity it is given *)
EditFormInit(k, e) ==
  IF e = NoEntity THEN EditFormIdle
  ELSE [name |-> e.name,
        extra |-> IF k = "doctors"
                  THEN (IF e.specialty = Null THEN Empty ELSE e.specialty)
                  ELSE e.birthdate,
        error |-> NoError, loading |-> FALSE]

(* the render that follows a step: a child that stays mounted takes the    *)
(* values the step gave it, a newly mounted one its initial values; the    *)
(* state of an unmounted child is gone (kept at the initial values here)   *)
Children(newSearch, newList, newAdd, newEdit) ==
  /\ searchTerm' = IF Shown /\ Shown' THEN newSearch ELSE Empty
  /\ list' = IF ListMounted /\ ListMounted' THEN newList ELSE ListIdle
  /\ addForm' = IF AddMounted /\ AddMounted' THEN newAdd ELSE AddFormIdle
  /\ editForm' = IF EditMounted /\ EditMounted' THEN newEdit
                 ELSE IF EditMounted' THEN EditFormInit(kind, editing')
                 ELSE EditFormIdle

SameChildren == Children(searchTerm, list, addForm, editForm)

IsMountedNext(from) ==
  CASE from = "list" -> ListMounted'
    [] from = "add"  -> AddMounted'
    [] from = "edit" -> EditMounted'
    [] OTHER         -> TRUE

(* requests left in flight after a step: those of unmounted instances are  *)
(* marked                                                                  *)
InFlight(q) ==
  net' = [i \in 1..Len(q) |-> [q[i] EXCEPT !.live = q[i].live /\ IsMountedNext(q[i].from)]]

MethodRank(m) ==
  CASE m = "GET" -> 1 [] m = "POST" -> 2 [] m = "PATCH" -> 3 [] OTHER -> 4

(* a request joins those in flight; answers come in any order, so the      *)
(* requests are kept by method, and in the order of sending within one     *)
(* method                                                                  *)
Issue(q, r) ==
  SelectSeq(q, LAMBDA x : MethodRank(x.method) <= MethodRank(r.method))
    \o << r >>
    \o SelectSeq(q, LAMBDA x : MethodRank(x.method) > MethodRank(r.method))

(* fetchDoctors / fetchPatients up to the await: the request it issues *)
RefreshRequest == Request("GET", ListPath(kind), Null, Bearer(token), NoBody, "page")

(* the call of fetchDoctors that onDoctorAdded makes: the same request,    *)
(* told apart from the other calls by the username just created            *)
RefreshAfter(u) == [RefreshRequest EXCEPT !.after = u]

InitCtl ==
  /\ token = Jwt(SegAdmin)
  /\ location \in {"/doctors", "/patients"}
  /\ view = RouteElement(location)
  /\ menuLoggedIn = TRUE
  /\ menuRole = RoleAdmin
  /\ loginPending = FALSE
  /\ kind = (IF location = "/doctors" THEN "doctors" ELSE "patients")
  /\ doctors = << >>
  /\ filteredDoctors = << >>
  /\ loading = TRUE
  /\ error = NoError
  /\ showForm = FALSE
  /\ editing = NoEntity
  /\ searchTerm = Empty
  /\ list = ListIdle
  /\ addForm = AddFormIdle
  /\ editForm = EditFormIdle
  /\ db = InitialDb(kind)
  /\ net = << Request("GET", ListPath(kind), Null, Bearer(token), NoBody, "page") >>
  /\ sent = { Request("GET", ListPath(kind), Null, Bearer(token), NoBody, "page") }
  /\ lastOp = Op("mount", location)

(* the backend accepts a request only with a bearer token *)
Authorized(r) == r.auth # NoHeader /\ r.auth # Bearer(NoToken)

(* fetchDoctors after the await: how it settles page state *)
FetchSettled(i, newDoctors, newFiltered, newError) ==
  /\ i \in 1..Len(net)
  /\ net[i].method = "GET"
  /\ doctors' = newDoctors
  /\ filteredDoctors' = newFiltered
  /\ error' = newError
  /\ loading' = FALSE
  /\ UNCHANGED <<navVars, kind, showForm, editing, db>>
  /\ SameChildren
  /\ InFlight(RemoveAt(net, i))

(* the backend serves a list request: it reads the store, and the answer  *)
(* travels back with what was read. Reading matters only ahead of a change *)
(* of the store, so it is a step of its own only while a create, update or *)
(* delete is in flight                                                     *)
Serve(i) ==
  /\ i \in 1..Len(net)
  /\ net[i].method = "GET" /\ Authorized(net[i])
  /\ ~net[i].data.served
  /\ \E j \in 1..Len(net) : net[j].method # "GET"
  /\ net' = [net EXCEPT ![i].data = Served(db)]
  /\ UNCHANGED <<navVars, pageVars, childVars, db>>

(* the rows a 2xx answer brings: those read when the request was served,  *)
(* or the store as it is when the answer follows the reading at once      *)
Data(r) == IF r.data.served THEN r.data.rows ELSE db

FetchOk_Appends(i) ==
  /\ i \in 1..Len(net) /\ Authorized(net[i])
  /\ FetchSettled(i, doctors \o Data(net[i]), filteredDoctors \o Data(net[i]), error)

(* 2xx answer: setDoctors(data); setFilteredDoctors(data); setLoading(false) *)
FetchOk(i) ==
  /\ i \in 1..Len(net) /\ Authorized(net[i])
  /\ FetchSettled(i, Data(net[i]), Data(net[i]), error)

FetchErrorText(k) ==
  IF k = "doctors" THEN "No s'han pogut carregar els doctors"
                   ELSE "No s'han pogut carregar els pacients"

(* the backend no longer accepts the token the request carried *)
TokenRejected == [status |-> "401", shape |-> "detail",
                  text |-> "Could not validate credentials"]

(* a server error: status 500 with a body that is not JSON *)
ServerError == [status |-> "500", shape |-> "unparsable", text |-> ""]

FetchFailures == {TokenRejected, ServerError}

FetchAnswered_NoError(i, answer) ==
  /\ answer \in FetchFailures
  /\ FetchSettled(i, doctors, filteredDoctors, error)

(* fetchDoctors after a failed answer: the catch branch sets the same      *)
(* message whatever the answer was                                         *)
FetchAnswered(i, answer) ==
  /\ answer \in FetchFailures
  /\ FetchSettled(i, doctors, filteredDoctors, FetchErrorText(kind))

FetchFailed_DropsList(i) ==
  FetchSettled(i, << >>, << >>, FetchErrorText(kind))

(* network error or non-2xx answer: setError(...); setLoading(false) *)
FetchFailed(i) ==
  \E answer \in FetchFailures : FetchAnswered(i, answer)

(* the search box on the mounted page *)
Search(value) ==
  /\ Shown /\ ~ModalOpen
  /\ filteredDoctors' = handleSearch(kind, doctors, value)
  /\ UNCHANGED <<navVars, kind, doctors, loading, error, showForm, editing, db>>
  /\ Children(value, list, addForm, editForm)
  /\ InFlight(net)

(***************************************************************************)
(* Backend (external): entities keyed by unique username, kept in the      *)
(* order they were created                                                 *)
(***************************************************************************)
Usernames(q) == { q[i].username : i \in 1..Len(q) }

Without(q, u) == SelectSeq(q, LAMBDA e : e.username # u)

Created(k, body) ==
  IF k = "doctors" THEN Doctor(body.username, body.name, body.specialty)
                   ELSE Patient(body.username, body.name, body.birthDate)

Updated(q, u, body) ==
  [i \in 1..Len(q) |->
     IF q[i].username = u
     THEN [f \in DOMAIN q[i] |-> IF f \in DOMAIN body THEN body[f] ELSE q[i][f]]
     ELSE q[i]]

Answer(status, shape, text) == [status |-> status, shape |-> shape, text |-> text]

(* the answer to a request the backend refuses, "ok" when it accepts it *)
Refusal(r, store) ==
  IF ~Authorized(r) THEN Answer("401", "detail", "Not authenticated")
  ELSE IF r.method = "POST" /\ r.body.username \in Usernames(store)
       THEN Answer("409", "detail", "username exists")
  ELSE IF r.method \in {"PATCH", "DELETE"} /\ r.target \notin Usernames(store)
       THEN Answer("404", "detail", "not found")
  ELSE Answer("200", "ok", "")

Accepted(r, store) == Refusal(r, store).shape = "ok"

(* the failed answers a request can get: the backend's refusal, or a       *)
(* server error (the store is left as it was)                              *)
Failures(r, store) ==
  (IF Accepted(r, store) THEN {} ELSE {Refusal(r, store)}) \cup {ServerError}

FailureAnswers ==
  { Answer("401", "detail", "Not authenticated"),
    Answer("409", "detail", "username exists"),
    Answer("404", "detail", "not found"),
    ServerError }

(***************************************************************************)
(* Messages the forms and the list compose from a failed answer            *)
(***************************************************************************)
JsonSyntaxError == "Unexpected token < in JSON"

DetailOr(answer, fallback) ==
  IF answer.shape = "unparsable" THEN JsonSyntaxError
  ELSE IF answer.shape = "detail" /\ answer.text # "" THEN answer.text
  ELSE fallback

AddDoctorError(answer) == DetailOr(answer, "Error creating doctor")

AddPatientError(answer) ==
  IF answer.shape = "unparsable" THEN "Error HTTP " \o answer.status
  ELSE IF answer.shape \in {"detail", "array", "message"} THEN answer.text
  ELSE "No s'ha pogut crear el pacient"

AddError(k, answer) ==
  IF k = "doctors" THEN AddDoctorError(answer) ELSE AddPatientError(answer)

EditError(k, answer) ==
  DetailOr(answer, IF k = "doctors" THEN "Error actualitzant el doctor"
                                    ELSE "Error actualitzant el pacient")

DeleteError(k, answer) ==
  DetailOr(answer, IF k = "doctors" THEN "Error eliminant el doctor"
                                    ELSE "Error eliminant el pacient")

(***************************************************************************)
(* Add form                                                                *)
(***************************************************************************)
(* "Afegir" button: disabled={showForm || editingDoctor !== null} on the   *)
(* doctors page, disabled={showForm} on the patients page                  *)
AddButtonDisabled(k) ==
  IF k = "doctors" THEN showForm \/ editing # NoEntity ELSE showForm

beginAdd ==
  /\ Shown /\ ~ModalOpen
  /\ ~AddButtonDisabled(kind)
  /\ showForm' = TRUE
  /\ UNCHANGED <<navVars, kind, doctors, filteredDoctors, loading, error, editing, db>>
  /\ SameChildren
  /\ InFlight(net)

cancelAdd ==
  /\ AddMounted /\ ~ModalOpen
  /\ ~addForm.loading
  /\ showForm' = FALSE
  /\ UNCHANGED <<navVars, kind, doctors, filteredDoctors, loading, error, editing, db>>
  /\ SameChildren
  /\ InFlight(net)

(* onChange of one input of the add form *)
typeAdd(field, value) ==
  /\ AddMounted /\ ~ModalOpen
  /\ addForm[field] # value
  /\ UNCHANGED <<navVars, pageVars, db>>
  /\ Children(searchTerm, list, [addForm EXCEPT ![field] = value], editForm)
  /\ InFlight(net)

AddBody(k) ==
  IF k = "doctors"
  THEN [username |-> addForm.username, name |-> addForm.name,
        specialty |-> IF addForm.extra = Empty THEN Null ELSE addForm.extra]
  ELSE [username |-> addForm.username, name |-> addForm.name,
        birthDate |-> addForm.extra]

(* handleSubmit of the add form up to its await *)
submitAdd ==
  /\ AddMounted /\ ~ModalOpen
  /\ ~addForm.loading
  /\ addForm.username # Empty /\ addForm.name # Empty
  /\ kind = "patients" => addForm.extra # Empty
  /\ Len(net) < MaxInFlight
  /\ LET r == Request("POST", ListPath(kind), Null, Bearer(token), AddBody(kind), "add")
     IN  /\ UNCHANGED <<navVars, pageVars, db>>
         /\ Children(searchTerm, list,
                     [addForm EXCEPT !.error = NoError, !.loading = TRUE], editForm)
         /\ InFlight(Issue(net, r))

(* handleSubmit of the add form after a 2xx answer, with onDoctorAdded *)
AddOk(i) ==
  /\ i \in 1..Len(net)
  /\ net[i].method = "POST"
  /\ Accepted(net[i], db)
  /\ db' = Append(db, Created(kind, net[i].body))
  /\ showForm' = FALSE
  /\ loading' = TRUE
  /\ error' = NoError
  /\ UNCHANGED <<navVars, kind, doctors, filteredDoctors, editing>>
  /\ Children(searchTerm, list,
              IF net[i].live THEN AddFormIdle ELSE addForm, editForm)
  /\ InFlight(Issue(RemoveAt(net, i), RefreshAfter(net[i].body.username)))

(* handleSubmit of the add form after a failed answer *)
AddFailed(i, answer) ==
  /\ i \in 1..Len(net)
  /\ net[i].method = "POST"
  /\ answer \in Failures(net[i], db)
  /\ UNCHANGED <<navVars, pageVars, db>>
  /\ Children(searchTerm, list,
              IF net[i].live
              THEN [addForm EXCEPT !.error = AddError(kind, answer),
                                   !.loading = FALSE]
              ELSE addForm,
              editForm)
  /\ InFlight(RemoveAt(net, i))

(***************************************************************************)
(* Edit form                                                               *)
(***************************************************************************)
Rows == { filteredDoctors[i] : i \in 1..Len(filteredDoctors) }

(* onDoctorEdit / onPatientEdit from a row's "Editar" button *)
beginEdit(e) ==
  /\ ListMounted /\ ~ModalOpen
  /\ e \in Rows
  /\ showForm' = FALSE
  /\ editing' = e
  /\ UNCHANGED <<navVars, kind, doctors, filteredDoctors, loading, error, db>>
  /\ SameChildren
  /\ InFlight(net)

cancelEdit ==
  /\ EditMounted /\ ~ModalOpen
  /\ ~editForm.loading
  /\ editing' = NoEntity
  /\ UNCHANGED <<navVars, kind, doctors, filteredDoctors, loading, error, showForm, db>>
  /\ SameChildren
  /\ InFlight(net)

typeEdit(field, value) ==
  /\ EditMounted /\ ~ModalOpen
  /\ editForm[field] # value
  /\ UNCHANGED <<navVars, pageVars, db>>
  /\ Children(searchTerm, list, addForm, [editForm EXCEPT ![field] = value])
  /\ InFlight(net)

EditBody_WithUsername(k) ==
  IF k = "doctors"
  THEN [username |-> editing.username, name |-> editForm.name,
        specialty |-> IF editForm.extra = Empty THEN Null ELSE editForm.extra]
  ELSE [username |-> editing.username, name |-> editForm.name,
        birthdate |-> editForm.extra]

EditBody(k) ==
  IF k = "doctors"
  THEN [name |-> editForm.name,
        specialty |-> IF editForm.extra = Empty THEN Null ELSE editForm.extra]
  ELSE [name |-> editForm.name, birthdate |-> editForm.extra]

(* handleSubmit of the edit form up to its await *)
submitEdit ==
  /\ EditMounted /\ ~ModalOpen
  /\ ~editForm.loading
  /\ editForm.name # Empty
  /\ kind = "patients" => editForm.extra # Empty
  /\ Len(net) < MaxInFlight
  /\ LET r == Request("PATCH", ListPath(kind), editing.username, Bearer(token),
                      EditBody(kind), "edit")
     IN  /\ UNCHANGED <<navVars, pageVars, db>>
         /\ Children(searchTerm, list, addForm,
                     [editForm EXCEPT !.error = NoError, !.loading = TRUE])
         /\ InFlight(Issue(net, r))

(* handleSubmit of the edit form after a 2xx answer, with onDoctorUpdated *)
EditOk(i) ==
  /\ i \in 1..Len(net)
  /\ net[i].method = "PATCH"
  /\ Accepted(net[i], db)
  /\ db' = Updated(db, net[i].target, net[i].body)
  /\ editing' = NoEntity
  /\ loading' = TRUE
  /\ error' = NoError
  /\ UNCHANGED <<navVars, kind, doctors, filteredDoctors, showForm>>
  /\ Children(searchTerm, list, addForm,
              IF net[i].live THEN [editForm EXCEPT !.loading = FALSE] ELSE editForm)
  /\ InFlight(Issue(RemoveAt(net, i), RefreshRequest))

(* handleSubmit of the edit form after a failed answer *)
EditFailed(i, answer) ==
  /\ i \in 1..Len(net)
  /\ net[i].method = "PATCH"
  /\ answer \in Failures(net[i], db)
  /\ UNCHANGED <<navVars, pageVars, db>>
  /\ Children(searchTerm, list, addForm,
              IF net[i].live
              THEN [editForm EXCEPT !.error = EditError(kind, answer),
                                    !.loading = FALSE]
              ELSE editForm)
  /\ InFlight(RemoveAt(net, i))

(***************************************************************************)
(* List component: delete prompt and DELETE round trip                     *)
(***************************************************************************)
handleDeleteClick_SendsAtOnce(e) ==
  /\ ListMounted /\ ~ModalOpen
  /\ e \in Rows
  /\ list.loading # e.username
  /\ Len(net) < MaxInFlight
  /\ UNCHANGED <<navVars, pageVars, db>>
  /\ Children(searchTerm, [list EXCEPT !.loading = e.username], addForm, editForm)
  /\ InFlight(Issue(net, Request("DELETE", ListPath(kind), e.username,
                                 Bearer(token), NoBody, "list")))

handleDeleteClick(e) ==
  /\ ListMounted /\ ~ModalOpen
  /\ e \in Rows
  /\ list.loading # e.username
  /\ UNCHANGED <<navVars, pageVars, db>>
  /\ Children(searchTerm, [list EXCEPT !.toDelete = e, !.showModal = TRUE],
              addForm, editForm)
  /\ InFlight(net)

handleCancelDelete ==
  /\ ModalOpen
  /\ UNCHANGED <<navVars, pageVars, db>>
  /\ Children(searchTerm, [list EXCEPT !.toDelete = NoEntity, !.showModal = FALSE],
              addForm, editForm)
  /\ InFlight(net)

(* handleConfirmDelete up to its await; it returns at once without a target *)
handleConfirmDelete ==
  /\ ModalOpen
  /\ UNCHANGED <<navVars, pageVars, db>>
  /\ IF list.toDelete = NoEntity
     THEN /\ SameChildren
          /\ InFlight(net)
     ELSE /\ Len(net) < MaxInFlight
          /\ LET r == Request("DELETE", ListPath(kind), list.toDelete.username,
                              Bearer(token), NoBody, "list")
             IN  /\ Children(searchTerm,
                             [list EXCEPT !.error = NoError,
                                          !.loading = list.toDelete.username,
                                          !.showModal = FALSE],
                             addForm, editForm)
                 /\ InFlight(Issue(net, r))

(* handleConfirmDelete after a 2xx answer, with onDoctorDeleted = fetchDoctors *)
DeleteOk(i) ==
  /\ i \in 1..Len(net)
  /\ net[i].method = "DELETE"
  /\ Accepted(net[i], db)
  /\ db' = Without(db, net[i].target)
  /\ loading' = TRUE
  /\ error' = NoError
  /\ UNCHANGED <<navVars, kind, doctors, filteredDoctors, showForm, editing>>
  /\ Children(searchTerm,
              IF net[i].live
              THEN [list EXCEPT !.loading = Null, !.toDelete = NoEntity] ELSE list,
              addForm, editForm)
  /\ InFlight(Issue(RemoveAt(net, i), RefreshRequest))

(* handleConfirmDelete after a failed answer *)
DeleteFailed(i, answer) ==
  /\ i \in 1..Len(net)
  /\ net[i].method = "DELETE"
  /\ answer \in Failures(net[i], db)
  /\ UNCHANGED <<navVars, pageVars, db>>
  /\ Children(searchTerm,
              IF net[i].live
              THEN [list EXCEPT !.error = DeleteError(kind, answer),
                                !.loading = Null, !.toDelete = NoEntity]
              ELSE list,
              addForm, editForm)
  /\ InFlight(RemoveAt(net, i))

(* the list's error alert is dismissible *)
dismissListError ==
  /\ ListMounted /\ ~ModalOpen
  /\ list.error # NoError
  /\ UNCHANGED <<navVars, pageVars, db>>
  /\ Children(searchTerm, [list EXCEPT !.error = NoError], addForm, editForm)
  /\ InFlight(net)

(***************************************************************************)
(* The list page in a session that stays signed in. The backend reads the  *)
(* store for a list request when its answer arrives (Serve is not a step   *)
(* here; SpecOverlap has it).                                              *)
(***************************************************************************)
NextCtl ==
  \/ \E i \in 1..MaxInFlight : FetchOk(i)
  \/ \E i \in 1..MaxInFlight : FetchFailed(i)
  \/ \E value \in CtlTerms \cup {Empty} : Search(value)
  \/ beginAdd
  \/ cancelAdd
  \/ typeAdd("username", CU2)
  \/ addForm.username # Empty /\ typeAdd("name", TypedName)
  \/ kind = "patients" /\ addForm.name # Empty /\ typeAdd("extra", TypedExtra)
  \/ submitAdd
  \/ \E i \in 1..MaxInFlight : AddOk(i)
  \/ \E i \in 1..MaxInFlight, answer \in FailureAnswers : AddFailed(i, answer)
  \/ \E e \in Rows : beginEdit(e)
  \/ cancelEdit
  \/ typeEdit("name", TypedName)
  \/ submitEdit
  \/ \E i \in 1..MaxInFlight : EditOk(i)
  \/ \E i \in 1..MaxInFlight, answer \in FailureAnswers : EditFailed(i, answer)
  \/ \E e \in Rows : handleDeleteClick(e)
  \/ handleCancelDelete
  \/ handleConfirmDelete
  \/ \E i \in 1..MaxInFlight : DeleteOk(i)
  \/ \E i \in 1..MaxInFlight, answer \in FailureAnswers : DeleteFailed(i, answer)
  \/ dismissListError

Spec == InitCtl /\ [][NextCtl]_vars

(***************************************************************************)
(* The list page with the backend's reading of a list request and the      *)
(* arrival of its answer as separate steps, for list fetches that overlap. *)
(* The user edits and deletes; the add form and the search stay closed.    *)
(***************************************************************************)
NextOverlap ==
  \/ \E i \in 1..MaxInFlight : Serve(i)
  \/ \E i \in 1..MaxInFlight : FetchOk(i)
  \/ \E i \in 1..MaxInFlight : FetchFailed(i)
  \/ \E e \in Rows : beginEdit(e)
  \/ cancelEdit
  \/ typeEdit("name", TypedName)
  \/ submitEdit
  \/ \E i \in 1..MaxInFlight : EditOk(i)
  \/ \E i \in 1..MaxInFlight, answer \in FailureAnswers : EditFailed(i, answer)
  \/ \E e \in Rows : handleDeleteClick(e)
  \/ handleCancelDelete
  \/ handleConfirmDelete
  \/ \E i \in 1..MaxInFlight : DeleteOk(i)
  \/ \E i \in 1..MaxInFlight, answer \in FailureAnswers : DeleteFailed(i, answer)
  \/ dismissListError

SpecOverlap == InitCtl /\ [][NextOverlap]_vars

(***************************************************************************)
(* The list page after another tab of the same origin has signed out: the  *)
(* token is gone from storage while the page stays mounted (the state      *)
(* StorageEvent(NoToken) leaves right after the page's mount)              *)
(***************************************************************************)
InitSignedOut ==
  /\ token = NoToken
  /\ location \in {"/doctors", "/patients"}
  /\ view = RouteElement(location)
  /\ menuLoggedIn = FALSE
  /\ menuRole = NoRole
  /\ loginPending = FALSE
  /\ lastOp = Op("storage", "")
  /\ kind = (IF location = "/doctors" THEN "doctors" ELSE "patients")
  /\ doctors = << >>
  /\ filteredDoctors = << >>
  /\ loading = TRUE
  /\ error = NoError
  /\ showForm = FALSE
  /\ editing = NoEntity
  /\ searchTerm = Empty
  /\ list = ListIdle
  /\ addForm = AddFormIdle
  /\ editForm = EditFormIdle
  /\ db = InitialDb(kind)
  /\ net = << Request("GET", ListPath(kind), Null, Bearer(Jwt(SegAdmin)), NoBody, "page") >>
  /\ sent = {}

NextSignedOut ==
  \/ \E i \in 1..MaxInFlight : FetchOk(i)
  \/ \E i \in 1..MaxInFlight : FetchFailed(i)
  \/ \E value \in CtlTerms \cup {Empty} : Search(value)
  \/ beginAdd
  \/ cancelAdd
  \/ typeAdd("username", CU2)
  \/ addForm.username # Empty /\ typeAdd("name", TypedName)
  \/ kind = "patients" /\ addForm.name # Empty /\ typeAdd("extra", TypedExtra)
  \/ submitAdd
  \/ \E i \in 1..MaxInFlight, answer \in FailureAnswers : AddFailed(i, answer)
  \/ \E e \in Rows : beginEdit(e)
  \/ cancelEdit
  \/ typeEdit("name", TypedName)
  \/ submitEdit
  \/ \E i \in 1..MaxInFlight, answer \in FailureAnswers : EditFailed(i, answer)
  \/ \E e \in Rows : handleDeleteClick(e)
  \/ handleCancelDelete
  \/ handleConfirmDelete
  \/ \E i \in 1..MaxInFlight, answer \in FailureAnswers : DeleteFailed(i, answer)
  \/ dismissListError

SpecSignedOut == InitSignedOut /\ [][NextSignedOut]_vars

(***************************************************************************)
(* Claims                                                                  *)
(***************************************************************************)
Roles == {RoleAdmin, RoleDoctor, RolePatient, RoleOther, NoRole}

AllowList(page) == { r \in Roles : MenuShows(page, TRUE, r) }

(* the list fetches among the requests in flight *)
Gets(q) == Len(SelectSeq(q, LAMBDA r : r.method = "GET"))

IsAuthenticatedEndpoint(path) ==
  path \in {"/api/doctors", "/api/patients", "/api/users/me"}

(***************************************************************************)
(* C1: a view is on screen after a navigation only if it needs no          *)
(* authentication, or a token is stored and the view has no role           *)
(* restriction or the role of the stored token is in the view's allow-list *)
(* (Doctors: admin; Patients: admin, doctor), however the route was        *)
(* reached.                                                                *)
(***************************************************************************)
C1_ViewRenderedOnlyIfRoleAllowed ==
  lastOp.op \in {"navigate", "load"} =>
    \/ view \in {"Home", "Login", "AboutUs"}
    \/ token # NoToken /\ getUserRole(token) \in AllowList(view)

(***************************************************************************)
(* C2: navigating to /user, /doctors or /patients while no token is stored *)
(* ends at /login with the Login page on screen; navigating to /, /login   *)
(* or /about shows that page whether or not a token is stored.             *)
(***************************************************************************)
C2_NoTokenRedirectsToLogin ==
  lastOp.op = "navigate" =>
    /\ (token = NoToken /\ lastOp.arg \in {"/user", "/doctors", "/patients"})
         => (location = "/login" /\ view = "Login")
    /\ lastOp.arg = "/" => (location = "/" /\ view = "Home")
    /\ lastOp.arg = "/login" => (location = "/login" /\ view = "Login")
    /\ lastOp.arg = "/about" => (location = "/about" /\ view = "AboutUs")

C2_Witness ==
  /\ lastOp = Op("navigate", "/doctors")
  /\ token = NoToken
  /\ location = "/login"
  /\ view = "Login"

(***************************************************************************)
(* C3: on the doctors page and on the patients page the add form and the   *)
(* edit form are never on screen together.                                 *)
(***************************************************************************)
C3_AtMostOneFormVisible == ~(AddMounted /\ EditMounted)

(***************************************************************************)
(* C4: no request to an authenticated endpoint is in flight that was sent   *)
(* while no token was stored (such a request would carry the header of the *)
(* missing token).                                                         *)
(***************************************************************************)
C4_NoCallWithoutToken ==
  \A i \in 1..Len(net) :
    IsAuthenticatedEndpoint(net[i].path) => net[i].auth # Bearer(NoToken)

(***************************************************************************)
(* C5: every request sent to /api/doctors, /api/patients, an entity under  *)
(* them, or /api/users/me carries "Authorization: Bearer <token>" with the *)
(* token held in storage.                                                  *)
(***************************************************************************)
C5_RequestsCarryStoredToken ==
  \A r \in sent :
    IsAuthenticatedEndpoint(r.path) => (token # NoToken /\ r.auth = <<"Bearer", token>>)

(***************************************************************************)
(* C7: whenever the page shows its list, the rows are the entries of the   *)
(* fetched list that the text in the search box selects.                   *)
(***************************************************************************)
C7_DerivedConsistentWithFilter ==
  Shown => filteredDoctors = handleSearch(kind, doctors, searchTerm)

(***************************************************************************)
(* C8: the step in which a list fetch fails sets the page's error and      *)
(* leaves the fetched list and the rows as they were.                      *)
(***************************************************************************)
C8_FailedRefreshKeepsLists ==
  [][(\E i \in 1..MaxInFlight : FetchFailed(i)) =>
       /\ error' # NoError
       /\ doctors' = doctors
       /\ filteredDoctors' = filteredDoctors]_vars

C8_Witness ==
  /\ error # NoError
  /\ ~loading
  /\ Len(doctors) > 0
  /\ Len(filteredDoctors) > 0

(***************************************************************************)
(* C9: the step in which a create, update or delete call succeeds leaves   *)
(* no add form, no edit form and no delete target, and sends the list      *)
(* fetch.                                                                  *)
(***************************************************************************)
C9_SuccessClearsPendingAndRefreshes ==
  [][(\E i \in 1..MaxInFlight : AddOk(i) \/ EditOk(i) \/ DeleteOk(i)) =>
       /\ ~showForm'
       /\ editing' = NoEntity
       /\ list'.toDelete = NoEntity
       /\ Gets(net') = Gets(net) + 1]_vars

(***************************************************************************)
(* C10: the step in which a create or update call fails while the page     *)
(* still has that form open (the add form, or the edit form of the entity  *)
(* the call was for) finds the form on screen and leaves it there with the *)
(* typed values, shows the backend's message in it, starts no list fetch,  *)
(* and leaves the fetched list and the rows as they were.                  *)
(***************************************************************************)
C10_FailedMutationKeepsForm ==
  [][\A i \in 1..MaxInFlight, answer \in FailureAnswers :
       /\ (AddFailed(i, answer) /\ showForm) =>
            /\ AddMounted /\ AddMounted'
            /\ addForm'.username = addForm.username
            /\ addForm'.name = addForm.name
            /\ addForm'.extra = addForm.extra
            /\ addForm'.error # NoError
            /\ answer.shape = "detail" => addForm'.error = answer.text
            /\ Gets(net') = Gets(net)
            /\ doctors' = doctors
            /\ filteredDoctors' = filteredDoctors
       /\ (EditFailed(i, answer) /\ editing # NoEntity
             /\ editing.username = net[i].target) =>
            /\ EditMounted /\ EditMounted'
            /\ editForm'.name = editForm.name
            /\ editForm'.extra = editForm.extra
            /\ editForm'.error # NoError
            /\ answer.shape = "detail" => editForm'.error = answer.text
            /\ Gets(net') = Gets(net)
            /\ doctors' = doctors
            /\ filteredDoctors' = filteredDoctors]_vars

(* the DELETE requests for username u among the requests in flight *)
Deletes(q, u) == Len(SelectSeq(q, LAMBDA r : r.method = "DELETE" /\ r.target = u))

(***************************************************************************)
(* C11: a step sends a DELETE for a username only while the prompt is open *)
(* for the entity of that username, and cancelling the prompt clears the   *)
(* delete target and hides the prompt without sending anything.            *)
(***************************************************************************)
C11_DeleteOnlyAfterConfirm ==
  [][/\ \A u \in {CU1, CU2} :
          Deletes(net', u) > Deletes(net, u) =>
            /\ ModalOpen
            /\ list.toDelete # NoEntity
            /\ list.toDelete.username = u
     /\ handleCancelDelete =>
          /\ list'.toDelete = NoEntity
          /\ ~list'.showModal
          /\ Len(net') = Len(net)]_vars

C11_Witness ==
  /\ ListMounted
  /\ ~list.showModal
  /\ list.loading = CU1
  /\ Deletes(net, CU1) = 1

(* the create, update and delete requests among the requests in flight *)
Mutations(q) == Len(SelectSeq(q, LAMBDA r : r.method # "GET"))

(***************************************************************************)
(* C12: at most one create, update or delete request of a list page is in  *)
(* flight at any time.                                                     *)
(***************************************************************************)
C12_OneMutationInFlight == Mutations(net) <= 1

(***************************************************************************)
(* C13: right after a logout no token is stored (so no role can be read    *)
(* from storage), the menu is in its signed-out state without a role, and  *)
(* the Login page is on screen at /login.                                  *)
(***************************************************************************)
C13_LogoutClearsSession ==
  lastOp.op = "logout" =>
    /\ token = NoToken
    /\ getUserRole(token) = NoRole
    /\ ~menuLoggedIn
    /\ menuRole = NoRole
    /\ location = "/login"
    /\ view = "Login"

C13_Witness ==
  /\ lastOp.op = "logout"
  /\ token = NoToken
  /\ view = "Login"

(***************************************************************************)
(* C14: a step of this tab changes the stored token (and with it the role  *)
(* read from it) only when it is a successful login, which stores the      *)
(* token the backend returned, or a logout, which removes it; every other  *)
(* step leaves the token as it is.  (A storage step is a write by another  *)
(* tab.)                                                                   *)
(***************************************************************************)
C14_TokenChangesOnlyByLoginLogout ==
  [][(token' # token /\ lastOp'.op # "storage") =>
       \/ lastOp'.op = "loginOk" /\ token' \in IssuedTokens
       \/ lastOp'.op = "logout" /\ token' = NoToken]_vars

C14_Witness ==
  /\ lastOp.op = "loginFailed"
  /\ token # NoToken

(***************************************************************************)
(* C15: after the step in which a list fetch comes back rejected for its   *)
(* token, no token is stored.                                              *)
(***************************************************************************)
C15_RejectedTokenIsRemoved ==
  [][\A i \in 1..MaxInFlight :
       FetchAnswered(i, TokenRejected) => token' = NoToken]_vars

(* what a token says about the role: the role member of the JSON object   *)
(* its middle segment carries in base64url, if the token has three         *)
(* segments and such a member                                              *)
Claims(tok) ==
  IF tok = NoToken \/ Len(tok) # 3 THEN JsonFailed
  ELSE LET decoded == Base64Decode(tok[2], Base64UrlAlphabet)
       IN  IF decoded.threw THEN JsonFailed ELSE JSONparse(decoded.text)

WellFormed(tok) ==
  /\ ~Claims(tok).threw
  /\ Claims(tok).kind = "object"
  /\ \E i \in 1..Len(Claims(tok).members) : Claims(tok).members[i][1] = RoleKey

(***************************************************************************)
(* C16: for the token in storage, whatever it is, the role derived from it *)
(* is the role member of its payload when the token is well formed, and no *)
(* role (null or undefined) otherwise.                                     *)
(***************************************************************************)
C16_RoleDerivation ==
  IF WellFormed(token)
  THEN getUserRole(token) = Member(Claims(token), RoleKey).value
  ELSE getUserRole(token) \in {NoRole, Undefined}

(* the message the error handling contract composes from a failed answer   *)
Composed(answer) ==
  IF answer.shape = "unparsable" THEN "HTTP " \o answer.status
  ELSE answer.text

(***************************************************************************)
(* C17: whenever a list fetch, a create, an update or a delete is answered *)
(* with a failure, the message put on screen is the one composed from the  *)
(* body (its detail text), or "HTTP <status>" when the body cannot be      *)
(* parsed.                                                                 *)
(***************************************************************************)
C17_ErrorComposedFromBody ==
  [][\A i \in 1..Len(net) : \A answer \in FailureAnswers \cup FetchFailures :
       /\ FetchAnswered(i, answer) => error' = Composed(answer)
       /\ (AddFailed(i, answer) /\ net[i].live)
            => addForm'.error = Composed(answer)
       /\ (EditFailed(i, answer) /\ net[i].live)
            => editForm'.error = Composed(answer)
       /\ (DeleteFailed(i, answer) /\ net[i].live)
            => list'.error = Composed(answer)]_vars

(* how many entities of a list have the username u *)
Count(q, u) == Len(SelectSeq(q, LAMBDA e : e.username = u))

(***************************************************************************)
(* C18: the step in which a create of username u succeeds sends the list   *)
(* fetch for it, and the step in which that fetch succeeds leaves the      *)
(* authoritative list with exactly one entity of username u.               *)
(***************************************************************************)
C18_CreateThenRefreshListsOnce ==
  [][\A i \in 1..Len(net) :
       /\ AddOk(i) =>
            \E j \in 1..Len(net') : net'[j].after = net[i].body.username
       /\ (FetchOk(i) /\ net[i].after # Null) =>
            Count(doctors', net[i].after) = 1]_vars

(***************************************************************************)
(* C19: when a list fetch succeeds with the rows the authoritative list    *)
(* already holds (what an earlier successful fetch brought from a backend  *)
(* not changed since), the step leaves the authoritative list with the     *)
(* same contents in the same order.                                        *)
(***************************************************************************)
C19_RefreshIdempotent ==
  [][\A i \in 1..Len(net) :
       (FetchOk(i) /\ doctors = Data(net[i])) => doctors' = doctors]_vars

C19_Witness ==
  /\ Shown
  /\ Len(doctors) > 0
  /\ \E i \in 1..Len(net) :
       /\ net[i].method = "GET" /\ Authorized(net[i])
       /\ doctors = Data(net[i])

(* the page returns the error alert in place of everything below the title *)
ErrorPanel == ~loading /\ error # NoError

(***************************************************************************)
(* C20: the step in which a list fetch fails leaves the error panel in     *)
(* place of the list, and the panel goes away only in a step that starts   *)
(* a list fetch.                                                           *)
(***************************************************************************)
C20_FailedRefreshShowsPanel ==
  [][/\ (\E i \in 1..Len(net) : FetchFailed(i)) =>
          /\ ErrorPanel'
          /\ ~Shown'
     /\ (ErrorPanel /\ ~ErrorPanel') =>
          /\ loading'
          /\ Gets(net') > Gets(net)]_vars

C20_Witness ==
  /\ ErrorPanel
  /\ error = FetchErrorText(kind)
  /\ Len(doctors) > 0
  /\ doctors # db
  /\ net = << >>

(* the update requests for username u among the requests in flight *)
Patches(q, u) == Len(SelectSeq(q, LAMBDA r : r.method = "PATCH" /\ r.target = u))

EditableFields(k) ==
  IF k = "doctors" THEN {"name", "specialty"} ELSE {"name", "birthdate"}

UsernamesInOrder(q) == [i \in 1..Len(q) |-> q[i].username]

(***************************************************************************)
(* C21: submitting the edit form sends one PATCH to the username of the    *)
(* entity the form was given, every PATCH in flight carries exactly the    *)
(* editable fields and no username, and the step in which a PATCH succeeds *)
(* leaves the usernames of the backend as they were.                       *)
(***************************************************************************)
C21_UpdateKeepsUsername ==
  [][/\ submitEdit =>
          Patches(net', editing.username) = Patches(net, editing.username) + 1
     /\ \A j \in 1..Len(net') :
          net'[j].method = "PATCH" =>
            DOMAIN net'[j].body = EditableFields(kind)
     /\ \A i \in 1..Len(net) :
          EditOk(i) => UsernamesInOrder(db') = UsernamesInOrder(db)]_vars

C21_Witness ==
  /\ EditMounted
  /\ editForm.loading
  /\ editing.username = CU1
  /\ editing.name # TypedName
  /\ \E j \in 1..Len(net) :
       /\ net[j].method = "PATCH"
       /\ net[j].target = CU1
       /\ net[j].body.name = TypedName

(***************************************************************************)
(* C22: the menu's logged-in flag says whether the storage holds a token,  *)
(* and the role the menu shows entries for is the role derived from the    *)
(* token the storage holds now.                                            *)
(***************************************************************************)
C22_MenuFollowsStorage ==
  /\ menuLoggedIn = (token # NoToken)
  /\ menuRole = getUserRole(token)

(***************************************************************************)
(* C23: when the edit form is submitted, the values it sends are those of  *)
(* the entity the PATCH addresses as they were when its editing began,     *)
(* but for what the user typed since (only the name is typed here).        *)
(***************************************************************************)
C23_EditValuesFromAddressedEntity ==
  [][submitEdit =>
       /\ editForm.extra = EditFormInit(kind, editing).extra
       /\ editForm.name \in {EditFormInit(kind, editing).name, TypedName}]_vars

(***************************************************************************)
(* C24: whenever the edit form is on screen, the authoritative list has an *)
(* entity with the username of the entity being edited.                    *)
(***************************************************************************)
C24_EditedEntityIsListed ==
  EditMounted => Count(doctors, editing.username) > 0

(***************************************************************************)
(* C25: whenever the delete confirmation prompt is open, a delete target   *)
(* is set (so that accepting it sends a DELETE for the entity it names).   *)
(***************************************************************************)
C25_PromptHasTarget ==
  ModalOpen => list.toDelete # NoEntity

(***************************************************************************)
(* C26: while a DELETE for a username is in flight there is only one, and  *)
(* if that username's row is on screen its delete button is disabled.      *)
(***************************************************************************)
C26_DeleteControlStaysDisabled ==
  \A u \in {CU1, CU2} :
    Deletes(net, u) > 0 =>
      /\ Deletes(net, u) = 1
      /\ (ListMounted /\ \E e \in Rows : e.username = u) => list.loading = u

(***************************************************************************)
(* C27: once every request has resolved and no list fetch failed since the *)
(* last one started, the authoritative list is what the most recently      *)
(* started fetch read, which is the backend's list: every change of the    *)
(* backend starts a fetch, so that fetch read the backend as it is now.    *)
(***************************************************************************)
C27_LatestRefreshWins ==
  (net = << >> /\ ~loading /\ error = NoError) => doctors = db

(***************************************************************************)
(* C28: the page's loading flag is set exactly while at least one list     *)
(* fetch is in flight.                                                     *)
(***************************************************************************)
C28_LoadingWhileFetching ==
  loading <=> (Gets(net) > 0)

(***************************************************************************)
(* C29: while the storage holds no token, none of the protected views      *)
(* (UserInfo, Doctors, Patients) is on screen.                             *)
(***************************************************************************)
C29_NoProtectedViewWithoutToken ==
  token = NoToken => view \notin {RouteElement(p) : p \in ProtectedPaths}

(* the user types into the add form, or into the edit form *)
TypesIntoAdd ==
  \E field \in {"username", "name", "extra"}, value \in {CU2, TypedName, TypedExtra} :
    typeAdd(field, value)

TypesIntoEdit == typeEdit("name", TypedName)

(***************************************************************************)
(* C30: a step that leaves the add form open, other than the user typing   *)
(* into it, leaves the values typed into it as they were; and likewise for *)
(* the edit form of an entity whose name the user has changed.             *)
(***************************************************************************)
C30_FormInputPreserved ==
  [][/\ (showForm /\ showForm' /\ addForm.username # Empty /\ ~TypesIntoAdd) =>
          /\ addForm'.username = addForm.username
          /\ addForm'.name = addForm.name
          /\ addForm'.extra = addForm.extra
     /\ (/\ editing # NoEntity /\ editing' = editing
         /\ editForm.name # EditFormInit(kind, editing).name
         /\ ~TypesIntoEdit) =>
          /\ editForm'.name = editForm.name
          /\ editForm'.extra = editForm.extra]_vars

====
